---- MODULE Spec2Model ----
(***************************************************************************)
(* Model of src/mistral_llm.py: CustomMistralLLM, an adapter that turns a  *)
(* prompt into one HTTP POST and the JSON response into a string.          *)
(*                                                                         *)
(* Python str values are sequences of one-character strings, so that       *)
(* str.strip() and the substring test are computed, not assumed.           *)
(* Python / JSON values are tagged records [t, v].                         *)
(***************************************************************************)
EXTENDS Integers, Sequences, FiniteSets, TLC

\* ------------------------------------------------------------------ bounds
MaxLen == 3         \* longest generated `text` in a response body
MaxOutputs == 2     \* longest `outputs` array in a response body
MaxCalls == 2       \* calls of _call started in one behaviour
NumCallers == 2     \* threads sharing the adapter instance (SpecConc)

\* ------------------------------------------------------- values and strings
Whitespace == {" ", "\t", "\n", "\r"}
Alphabet == {" ", "a"}

JNull == [t |-> "null", v |-> <<>>]
JNum(n) == [t |-> "num", v |-> n]
JStr(s) == [t |-> "str", v |-> s]
JList(l) == [t |-> "list", v |-> l]
JObj(f) == [t |-> "obj", v |-> f]
Garbage == [t |-> "garbage", v |-> <<>>]   \* a body that is not JSON text

OutputsKey == <<"o", "u", "t", "p", "u", "t", "s">>
TextKey == <<"t", "e", "x", "t">>
PromptKey == <<"p", "r", "o", "m", "p", "t">>
StopKey == <<"s", "t", "o", "p">>
IdKey == <<"i", "d">>
NoTextGenerated ==
  <<"N", "o", " ", "t", "e", "x", "t", " ",
    "g", "e", "n", "e", "r", "a", "t", "e", "d", ".">>

Ok(x) == [exc |-> "", val |-> x]
Err(e, dflt) == [exc |-> e, val |-> dflt]

Return(s) == [kind |-> "return", text |-> s, exc |-> ""]
Raise(e) == [kind |-> "raise", text |-> <<>>, exc |-> e]
NoOutcome == [kind |-> "none", text |-> <<>>, exc |-> ""]

\* ------------------------------------------------------------ str.strip()
RECURSIVE LStrip(_)
LStrip(s) ==
  IF s # <<>> /\ Head(s) \in Whitespace THEN LStrip(Tail(s)) ELSE s

RECURSIVE RStrip(_)
RStrip(s) ==
  IF s # <<>> /\ s[Len(s)] \in Whitespace
  THEN RStrip(SubSeq(s, 1, Len(s) - 1))
  ELSE s

StripLeftOnly(s) == LStrip(s)

Strip(s) == RStrip(LStrip(s))

\* ------------------------------------------- Python operators used by _call
\* A dict / JSON object is the sequence of its <<key, value>> items.
Keys(items) == {items[i][1] : i \in 1..Len(items)}

Lookup(items, k) ==
  LET last == CHOOSE i \in 1..Len(items) :
                /\ items[i][1] = k
                /\ \A j \in (i + 1)..Len(items) : items[j][1] # k
  IN items[last][2]

IsSubstring(k, s) ==
  \E i \in 0..(Len(s) - Len(k)) : SubSeq(s, i + 1, i + Len(k)) = k

\* `k in x`
PyIn(k, x) ==
  CASE x.t = "obj" -> Ok(k \in Keys(x.v))
    [] x.t = "list" -> Ok(\E i \in 1..Len(x.v) : x.v[i] = JStr(k))
    [] x.t = "str" -> Ok(IsSubstring(k, x.v))
    [] OTHER -> Err("TypeError", FALSE)

\* `x[k]` for a str key k
PyGetKey(x, k) ==
  CASE x.t = "obj" ->
         IF k \in Keys(x.v) THEN Ok(Lookup(x.v, k)) ELSE Err("KeyError", JNull)
    [] OTHER -> Err("TypeError", JNull)

\* `len(x)`
PyLen(x) ==
  CASE x.t = "obj" -> Ok(Cardinality(Keys(x.v)))
    [] x.t \in {"list", "str"} -> Ok(Len(x.v))
    [] OTHER -> Err("TypeError", 0)

\* `x[0]`
PyGetFirst(x) ==
  CASE x.t = "list" ->
         IF Len(x.v) > 0 THEN Ok(x.v[1]) ELSE Err("IndexError", JNull)
    [] x.t = "str" ->
         IF Len(x.v) > 0 THEN Ok(JStr(<<x.v[1]>>)) ELSE Err("IndexError", JNull)
    [] x.t = "obj" -> Err("KeyError", JNull)
    [] OTHER -> Err("TypeError", JNull)

\* `x.strip()`
PyStrip(x) ==
  IF x.t = "str" THEN Ok(Strip(x.v)) ELSE Err("AttributeError", <<>>)

\* ------------------------------------------------------------------ _call
NonemptyGe(n) == n >= 0

Nonempty(n) == n > 0

\* lines 33-36: the shape test and the extraction
Extract(rj) ==
  LET has == PyIn(OutputsKey, rj) IN
  IF has.exc # "" THEN Raise(has.exc)
  ELSE IF ~has.val THEN Return(NoTextGenerated)
  ELSE
    LET outs == PyGetKey(rj, OutputsKey) IN
    IF outs.exc # "" THEN Raise(outs.exc)
    ELSE
      LET n == PyLen(outs.val) IN
      IF n.exc # "" THEN Raise(n.exc)
      ELSE IF ~Nonempty(n.val) THEN Return(NoTextGenerated)
      ELSE
        LET first == PyGetFirst(outs.val) IN
        IF first.exc # "" THEN Raise(first.exc)
        ELSE
          LET text == PyGetKey(first.val, TextKey) IN
          IF text.exc # "" THEN Raise(text.exc)
          ELSE
            LET stripped == PyStrip(text.val) IN
            IF stripped.exc # "" THEN Raise(stripped.exc)
            ELSE Return(stripped.val)

RaiseForStatus5xxOnly(status) == 500 <= status /\ status < 600

RaiseForStatus4xxOnly(status) == 400 <= status /\ status < 500

\* line 30: response.raise_for_status() raises HTTPError for 4xx and 5xx
RaiseForStatus(status) ==
  \/ (400 <= status /\ status < 500)
  \/ (500 <= status /\ status < 600)

ResponseJsonLenient(body) == IF body.t = "garbage" THEN Ok(JObj(<<>>)) ELSE Ok(body)

\* line 32: response.json() raises when the body is not JSON text
ResponseJson(body) ==
  IF body.t = "garbage" THEN Err("JSONDecodeError", JNull) ELSE Ok(body)

\* lines 30-36: what _call does with the response that requests.post returned
CallResult(response) ==
  IF RaiseForStatus(response.status) THEN Raise("HTTPError")
  ELSE
    LET rj == ResponseJson(response.body) IN
    IF rj.exc # "" THEN Raise(rj.exc) ELSE Extract(rj.val)

\* ----------------------------------------------------- inputs (bounded)
SeqsUpTo(S, n) == UNION {[1..k -> S] : k \in 0..n}

Texts == SeqsUpTo(Alphabet, MaxLen)

FirstElems ==
  {JObj(<<<<TextKey, JStr(t)>>>>) : t \in Texts}
    \cup {JObj(<<<<IdKey, JNum(1)>>, <<TextKey, JStr(t)>>>>) : t \in {<<"\n", "a", " ", "a", "\t">>}}
    \cup {JObj(<<>>), JObj(<<<<TextKey, JNum(1)>>>>), JObj(<<<<TextKey, JNull>>>>),
          JStr(<<"a">>), JNum(1), JNull}

RestElems == {JObj(<<<<TextKey, JStr(<<"a", "a">>)>>>>)}

OutputsLists ==
  {<<>>} \cup {<<f>> \o r : f \in FirstElems, r \in SeqsUpTo(RestElems, MaxOutputs - 1)}

OutputsValues ==
  {JList(l) : l \in OutputsLists}
    \cup {JNull, JNum(1), JStr(<<>>), JStr(<<"a">>), JObj(<<>>),
          JObj(<<<<TextKey, JStr(<<"a">>)>>>>)}

ObjBodies ==
  {JObj(<<<<OutputsKey, o>>>>) : o \in OutputsValues}
    \cup {JObj(<<<<OutputsKey, o>>, <<IdKey, JNum(1)>>>>) : o \in OutputsValues}
    \cup {JObj(<<>>), JObj(<<<<IdKey, JNum(1)>>>>)}

OtherBodies ==
  {JList(<<>>), JList(<<JStr(OutputsKey)>>), JNum(1), JNull,
   JStr(OutputsKey), JStr(<<"a">>)}

Bodies == ObjBodies \cup OtherBodies \cup {Garbage}

\* final statuses; a 1xx or 204 response carries no body
BodyStatuses == {200, 300, 404, 500}
NoBodyStatuses == {101, 204}

NoResponse == [t |-> "none", status |-> 0, body |-> Garbage]
Response(s, b) == [t |-> "resp", status |-> s, body |-> b]

Responses ==
  {Response(s, b) : s \in BodyStatuses, b \in Bodies}
    \cup {Response(s, Garbage) : s \in NoBodyStatuses}

\* a few responses for the concurrent specification
ConcResponses ==
  {Response(200, JObj(<<<<OutputsKey, JList(<<JObj(<<<<TextKey, JStr(<<" ", "a">>)>>>>)>>)>>>>)),
   Response(200, JObj(<<<<OutputsKey, JList(<<JObj(<<<<TextKey, JStr(<<"a", "a">>)>>>>)>>)>>>>)),
   Response(200, JObj(<<>>)),
   Response(200, JObj(<<<<OutputsKey, JList(<<JObj(<<>>)>>)>>>>)),
   Response(200, Garbage),
   Response(500, JObj(<<>>))}

Prompts == {<<"X">>, <<" ", "Y", " ">>}
PyNone == JNull
Stops == {PyNone, JList(<<JStr(<<"\n">>)>>)}
MaxTokensKey == <<"m", "a", "x">>
Kwargs == {<<>>, <<<<MaxTokensKey, JNum(1)>>>>}

Endpoints == {"https://a/generate", "https://b/generate"}
Tokens == {"secret"}
NotGiven == "not given"
TemperatureArgs == {NotGiven, "0.2"}

\* ------------------------------------------------------------------ state
Callers == 1..NumCallers

VARIABLES
  ctor,      \* the keyword arguments the adapter was constructed with
  self,      \* the instance: endpoint, auth_token, temperature
  pc,        \* per caller: "idle", "built", "waiting", "got", "done"
  frame,     \* per caller: the locals of its _call invocation
  conn,      \* per caller: the request it sent and what the server answered
  posts,     \* per caller: POSTs issued by its current _call invocation
  outcome,   \* per caller: what its last _call returned or raised
  params,    \* the last result of _identifying_params, if it was read
  ncalls     \* _call invocations started so far

vars == <<ctor, self, pc, frame, conn, posts, outcome, params, ncalls>>

NoRequest == [method |-> "none"]
NoFrame == [live |-> FALSE]
NoParams == [unread |-> TRUE]
NoConn == [request |-> NoRequest, served |-> NoResponse]

DefaultTemperature == "0.7"

\* lines 8-10: the three fields, temperature defaulting to 0.7
Construct(args) ==
  [endpoint |-> args.endpoint,
   auth_token |-> args.auth_token,
   temperature |-> IF args.temperature = NotGiven
                   THEN DefaultTemperature
                   ELSE args.temperature]

\* lines 22-25
Headers(obj) ==
  [Authorization |-> <<"Bearer ", obj.auth_token>>,
   ContentType |-> "application/json"]

BuildDataWithStop(obj, prompt, stop, kwargs) ==
  IF stop = PyNone
  THEN JObj(<<<<PromptKey, JStr(prompt)>>>>)
  ELSE JObj(<<<<PromptKey, JStr(prompt)>>, <<StopKey, stop>>>>)

\* lines 26-28, with everything in scope at that point as parameters
BuildData(obj, prompt, stop, kwargs) == JObj(<<<<PromptKey, JStr(prompt)>>>>)

\* line 29: the request requests.post sends
Request(obj, headers, data) ==
  [method |-> "POST", url |-> obj.endpoint, headers |-> headers,
   json |-> data, verify |-> FALSE]

IdentifyingParamsWithToken(obj) ==
  [endpoint |-> obj.endpoint, temperature |-> obj.temperature,
   auth_token |-> obj.auth_token]

\* lines 38-40
IdentifyingParams(obj) ==
  [endpoint |-> obj.endpoint, temperature |-> obj.temperature]

StoreResponseShared(f, c, r) ==
  [d \in DOMAIN f |-> IF f[d].live THEN [f[d] EXCEPT !.response = r] ELSE f[d]]

\* line 29: `response` is a local of the invocation that made the request
StoreResponse(f, c, r) == [f EXCEPT ![c].response = r]

InitWith(E, T) ==
  /\ ctor \in [endpoint : E, auth_token : Tokens, temperature : T]
  /\ self = Construct(ctor)
  /\ pc = [c \in Callers |-> "idle"]
  /\ frame = [c \in Callers |-> NoFrame]
  /\ conn = [c \in Callers |-> NoConn]
  /\ posts = [c \in Callers |-> 0]
  /\ outcome = [c \in Callers |-> NoOutcome]
  /\ params = NoParams
  /\ ncalls = 0

Init == InitWith(Endpoints, TemperatureArgs)

\* lines 16-28: _call is entered, its arguments bound, headers and data built
Call(c, prompt, stop, kwargs) ==
  /\ pc[c] \in {"idle", "done"}
  /\ ncalls < MaxCalls
  /\ ncalls' = ncalls + 1
  /\ frame' = [frame EXCEPT ![c] =
                 [live |-> TRUE, prompt |-> prompt, stop |-> stop,
                  kwargs |-> kwargs, headers |-> Headers(self),
                  data |-> BuildData(self, prompt, stop, kwargs),
                  response |-> NoResponse]]
  /\ conn' = [conn EXCEPT ![c] = NoConn]
  /\ posts' = [posts EXCEPT ![c] = 0]
  /\ outcome' = [outcome EXCEPT ![c] = NoOutcome]
  /\ pc' = [pc EXCEPT ![c] = "built"]
  /\ UNCHANGED <<ctor, self, params>>

\* line 29: requests.post sends the request and blocks
Post(c) ==
  /\ pc[c] = "built"
  /\ conn' = [conn EXCEPT ![c].request =
                Request(self, frame[c].headers, frame[c].data)]
  /\ posts' = [posts EXCEPT ![c] = @ + 1]
  /\ pc' = [pc EXCEPT ![c] = "waiting"]
  /\ UNCHANGED <<ctor, self, frame, outcome, params, ncalls>>

\* line 29: the server answers and requests.post returns the response
PostReturns(c, r) ==
  /\ pc[c] = "waiting"
  /\ conn' = [conn EXCEPT ![c].served = r]
  /\ frame' = StoreResponse(frame, c, r)
  /\ pc' = [pc EXCEPT ![c] = "got"]
  /\ UNCHANGED <<ctor, self, posts, outcome, params, ncalls>>

\* line 29: requests.post raises (DNS, refused connection, timeout); the
\* exception leaves _call, nothing catches it
PostRaises(c) ==
  /\ pc[c] = "waiting"
  /\ outcome' = [outcome EXCEPT ![c] = Raise("ConnectionError")]
  /\ frame' = [frame EXCEPT ![c] = NoFrame]
  /\ pc' = [pc EXCEPT ![c] = "done"]
  /\ UNCHANGED <<ctor, self, conn, posts, params, ncalls>>

FinishWithRetry(c) ==
  /\ pc[c] = "got"
  /\ IF CallResult(frame[c].response).kind = "raise" /\ posts[c] < 2
     THEN /\ conn' = [conn EXCEPT ![c].request =
                        Request(self, frame[c].headers, frame[c].data)]
          /\ posts' = [posts EXCEPT ![c] = @ + 1]
          /\ pc' = [pc EXCEPT ![c] = "waiting"]
          /\ UNCHANGED <<frame, outcome>>
     ELSE /\ outcome' = [outcome EXCEPT ![c] = CallResult(frame[c].response)]
          /\ frame' = [frame EXCEPT ![c] = NoFrame]
          /\ pc' = [pc EXCEPT ![c] = "done"]
          /\ UNCHANGED <<conn, posts>>
  /\ UNCHANGED <<ctor, self, params, ncalls>>

\* lines 30-36: status check, JSON parse, extraction; _call returns or raises
Finish(c) ==
  /\ pc[c] = "got"
  /\ outcome' = [outcome EXCEPT ![c] = CallResult(frame[c].response)]
  /\ frame' = [frame EXCEPT ![c] = NoFrame]
  /\ pc' = [pc EXCEPT ![c] = "done"]
  /\ UNCHANGED <<ctor, self, conn, posts, params, ncalls>>

\* lines 38-40: the accessor is read
GetIdentifyingParams ==
  /\ params' = IdentifyingParams(self)
  /\ UNCHANGED <<ctor, self, pc, frame, conn, posts, outcome, ncalls>>

\* one caller, every input
Next ==
  \/ \E p \in Prompts, s \in Stops, k \in Kwargs : Call(1, p, s, k)
  \/ Post(1)
  \/ \E r \in Responses : PostReturns(1, r)
  \/ PostRaises(1)
  \/ Finish(1)
  \/ GetIdentifyingParams

Spec == Init /\ [][Next]_vars

\* several callers on the same instance, interleaved at every step
InitConc == InitWith({"https://a/generate"}, {NotGiven})

NextConc ==
  \/ \E c \in Callers, p \in Prompts, s \in Stops : Call(c, p, s, <<>>)
  \/ \E c \in Callers : Post(c)
  \/ \E c \in Callers, r \in ConcResponses : PostReturns(c, r)
  \/ \E c \in Callers : PostRaises(c)
  \/ \E c \in Callers : Finish(c)
  \/ GetIdentifyingParams

SpecConc == InitConc /\ [][NextConc]_vars

\* ------------------------------------------------------------------ claims
\* The vocabulary of the claims, stated on the response the server sent.
IsSuccess(status) == 200 <= status /\ status < 300
IsErrorStatus(status) == status \in 400..599

Answered(c) == pc[c] = "done" /\ conn[c].served.t = "resp"
Status(c) == conn[c].served.status
Body(c) == conn[c].served.body

HasField(b, k) == b.t = "obj" /\ \E i \in 1..Len(b.v) : b.v[i][1] = k
Field(b, k) == Lookup(b.v, k)

NonEmptyOutputs(b) ==
  /\ HasField(b, OutputsKey)
  /\ Field(b, OutputsKey).t = "list"
  /\ Len(Field(b, OutputsKey).v) > 0

FirstOutput(b) == Field(b, OutputsKey).v[1]

HasText(e) == HasField(e, TextKey) /\ Field(e, TextKey).t = "str"

ExpectedShape(b) == NonEmptyOutputs(b) /\ HasText(FirstOutput(b))

\* r is s without its leading and trailing whitespace
IsStripOf(r, s) ==
  \E i \in 0..Len(s), j \in 0..Len(s) :
    /\ i + j <= Len(s)
    /\ r = SubSeq(s, i + 1, Len(s) - j)
    /\ \A k \in 1..i : s[k] \in Whitespace
    /\ \A k \in (Len(s) - j + 1)..Len(s) : s[k] \in Whitespace
    /\ r # <<>> => (r[1] \notin Whitespace /\ r[Len(r)] \notin Whitespace)

\* C1: when the response has a success status and a JSON body with a
\* non-empty `outputs` array, a returned string is the `text` of element 0
\* without its leading and trailing whitespace (later elements and other
\* fields do not matter), and a string `text` in element 0 is always returned.
C1_ReturnsStrippedFirstText ==
  \A c \in Callers :
    (Answered(c) /\ IsSuccess(Status(c)) /\ NonEmptyOutputs(Body(c))) =>
      LET e == FirstOutput(Body(c)) IN
      /\ outcome[c].kind = "return" =>
           (HasText(e) /\ IsStripOf(outcome[c].text, Field(e, TextKey).v))
      /\ HasText(e) => outcome[c].kind = "return"

C1_Witness ==
  \E c \in Callers :
    /\ Answered(c) /\ IsSuccess(Status(c)) /\ NonEmptyOutputs(Body(c))
    /\ Len(Field(Body(c), OutputsKey).v) >= 2
    /\ HasField(Body(c), IdKey)
    /\ HasText(FirstOutput(Body(c)))
    /\ outcome[c].kind = "return"
    /\ outcome[c].text # <<>>
    /\ Len(outcome[c].text) + 2 <= Len(Field(FirstOutput(Body(c)), TextKey).v)

\* C2: when the response has a success status and a JSON object body whose
\* `outputs` field is absent or an empty array, the call returns
\* "No text generated." and raises nothing.
C2_FallbackWhenNoOutputs ==
  \A c \in Callers :
    (/\ Answered(c) /\ IsSuccess(Status(c)) /\ Body(c).t = "obj"
     /\ \/ ~HasField(Body(c), OutputsKey)
        \/ Field(Body(c), OutputsKey) = JList(<<>>))
      => outcome[c] = Return(NoTextGenerated)

C2_Witness ==
  \E c \in Callers :
    /\ Answered(c) /\ IsSuccess(Status(c))
    /\ HasField(Body(c), OutputsKey)
    /\ Field(Body(c), OutputsKey) = JList(<<>>)
    /\ outcome[c] = Return(NoTextGenerated)

\* C3: when the response has a success status and a JSON body that does not
\* have the expected shape, the call returns "No text generated." and never
\* raises.
C3_ShapeMismatchFallsBack ==
  \A c \in Callers :
    (/\ Answered(c) /\ IsSuccess(Status(c))
     /\ Body(c).t # "garbage" /\ ~ExpectedShape(Body(c)))
      => outcome[c] = Return(NoTextGenerated)

\* C4: when the response status is 4xx or 5xx the call fails with an HTTP
\* error, whatever the body is: no fallback, no extracted text, no parse error.
C4_ErrorStatusRaisesHTTPError ==
  \A c \in Callers :
    (Answered(c) /\ IsErrorStatus(Status(c))) => outcome[c] = Raise("HTTPError")

C4_Witness ==
  \E c \in Callers :
    /\ Answered(c) /\ IsErrorStatus(Status(c))
    /\ ExpectedShape(Body(c))
    /\ outcome[c] = Raise("HTTPError")

\* C5 as stated: every final status outside 2xx surfaces as a raised error,
\* and a string is returned only when the final status is 2xx.
C5_NonSuccessRaises ==
  \A c \in Callers :
    Answered(c) =>
      /\ ~IsSuccess(Status(c)) => outcome[c].kind = "raise"
      /\ outcome[c].kind = "return" => IsSuccess(Status(c))

\* C5 as amended: every final status in 4xx or 5xx surfaces as a raised HTTP
\* error, a string is returned only when the final status is not 4xx/5xx, and
\* a final status outside 4xx/5xx (1xx, 2xx, 3xx) never raises the HTTP error.
C5_ErrorStatusRaises ==
  \A c \in Callers :
    Answered(c) =>
      /\ IsErrorStatus(Status(c)) =>
           (outcome[c].kind = "raise" /\ outcome[c].exc = "HTTPError")
      /\ outcome[c].kind = "return" => ~IsErrorStatus(Status(c))
      /\ ~IsErrorStatus(Status(c)) => outcome[c].exc # "HTTPError"

C5_Witness ==
  \E c \in Callers :
    /\ Answered(c)
    /\ Status(c) \in 300..399
    /\ outcome[c].kind = "return"

\* C6: when the response has a success status and a body that is not JSON,
\* the call raises the parse error and returns no string.
C6_NonJsonRaisesParseError ==
  \A c \in Callers :
    (Answered(c) /\ IsSuccess(Status(c)) /\ Body(c).t = "garbage")
      => outcome[c] = Raise("JSONDecodeError")

C6_Witness ==
  \E c \in Callers :
    /\ Answered(c) /\ Status(c) = 200 /\ Body(c).t = "garbage"
    /\ outcome[c] = Raise("JSONDecodeError")

\* C7: the body of every request sent is the JSON object with the single key
\* `prompt` holding the prompt argument unchanged, whatever stop, the extra
\* keyword arguments and the configured temperature are.
C7_BodyIsPromptOnly ==
  \A c \in Callers :
    (frame[c].live /\ conn[c].request.method = "POST") =>
      LET body == conn[c].request.json IN
      /\ body.t = "obj"
      /\ Len(body.v) = 1
      /\ body.v[1] = <<PromptKey, JStr(frame[c].prompt)>>

C7_Witness ==
  \E c \in Callers :
    /\ frame[c].live /\ conn[c].request.method = "POST"
    /\ frame[c].stop # PyNone
    /\ frame[c].kwargs # <<>>
    /\ self.temperature # DefaultTemperature
    /\ Head(frame[c].prompt) \in Whitespace

ExpectedTemperature ==
  IF ctor.temperature = NotGiven THEN "0.7" ELSE ctor.temperature

\* C8: whatever calls were made and however they ended, the instance keeps the
\* endpoint, auth_token and temperature it was constructed with (0.7 when no
\* temperature was given), and the accessor returns a mapping of exactly
\* `endpoint` and `temperature` with those values, without auth_token.
C8_IdentifyingParamsStable ==
  /\ self = [endpoint |-> ctor.endpoint, auth_token |-> ctor.auth_token,
             temperature |-> ExpectedTemperature]
  /\ params # NoParams =>
       /\ DOMAIN params = {"endpoint", "temperature"}
       /\ params.endpoint = ctor.endpoint
       /\ params.temperature = ExpectedTemperature

C8_Witness ==
  /\ params # NoParams
  /\ ncalls >= 2
  /\ ctor.temperature = NotGiven
  /\ \E c \in Callers : pc[c] = "done" /\ outcome[c].kind = "raise"

Untouched(c) ==
  pc'[c] = pc[c] =>
    /\ frame'[c] = frame[c]
    /\ conn'[c] = conn[c]
    /\ outcome'[c] = outcome[c]
    /\ posts'[c] = posts[c]

OwnResponseOnly ==
  \A c \in Callers :
    /\ pc[c] = "got" => frame[c].response = conn[c].served
    /\ Answered(c) => outcome[c] = CallResult(conn[c].served)
    /\ (frame[c].live /\ conn[c].request.method = "POST") =>
         conn[c].request.json = JObj(<<<<PromptKey, JStr(frame[c].prompt)>>>>)

\* C10: with calls interleaved on one instance, each call's outcome is what
\* the response to its own request gives when the call runs alone, a step of
\* one call changes nothing of another call, and no step changes the instance.
C10_CallsIndependent ==
  /\ []OwnResponseOnly
  /\ [][(\A c \in Callers : Untouched(c)) /\ self' = self]_vars

C10_Witness ==
  \E c, d \in Callers :
    /\ c # d
    /\ Answered(c) /\ outcome[c].kind = "return"
    /\ pc[d] = "got"
    /\ frame[d].prompt # <<"X">>
    /\ conn[d].served # conn[c].served
====
